---- MODULE Spec2Model ----
(***************************************************************************)
(* BlobArray (src/src/lib.rs): a type-erased contiguous dynamic array.     *)
(* The store is modelled at byte granularity: `mem` is the contents of the *)
(* block the store points to, element i of a type of size s occupies the   *)
(* bytes [i*s, (i+1)*s), and every operation computes its addresses the    *)
(* way the code does.  One step of the model is one call of the API.       *)
(***************************************************************************)
EXTENDS Integers, Sequences, FiniteSets, TLC

\* ---------------------------------------------------------------- bounds
\* Largest capacity handed to new (0 is included: the rejected case).
MaxCap == 2
\* Number of push calls in one behaviour.
MaxPush == 3

\* ------------------------------------------------------------- the types
\* Element types T the store is instantiated with: size_of::<T>(),
\* align_of::<T>() and mem::needs_drop::<T>().  Obj is test::Obj reduced to
\* two bytes (the owned name, the age); Zst is test::zst::Zst.
Types ==
    { [name |-> "Zst",     size |-> 0, align |-> 1, needs_drop |-> FALSE],
      [name |-> "ZstDrop", size |-> 0, align |-> 1, needs_drop |-> TRUE],
      [name |-> "U8",      size |-> 1, align |-> 1, needs_drop |-> FALSE],
      [name |-> "Obj",     size |-> 2, align |-> 2, needs_drop |-> TRUE] }

NoType == [name |-> "none", size |-> 0, align |-> 1, needs_drop |-> FALSE]

\* A byte the program never wrote (fresh from the allocator).
Uninit == -1
\* ptr::null
NullPtr == 0
\* Addresses the allocator hands out; each is a multiple of every alignment
\* in Types, as alloc / realloc guarantee.
HeapBases == {8, 16}

\* No iterator is held.
NoIter == -1

\* Option<T>
None == <<"None">>
Some(v) == <<"Some", v>>

VARIABLES
    status,     \* "unborn" | "live" | "panicked" | "aborted" | "crashed" | "dropped"
    ty,         \* the T of new::<T>; the callers pass the same T to every call
    block,      \* BlobArray.block (an address, NullPtr when UB made it null)
    mem,        \* the bytes at block, one entry per byte
    len,        \* BlobArray.len
    capacity,   \* BlobArray.capacity
    drop,       \* BlobArray.drop.is_some()
    dropLog,    \* the values drop_in_place ran on, in order
    ret,        \* the last call and what it returned
    pushed,     \* history: the values given to push, in order
    returned,   \* history: the values swap_remove returned, in order
    cleared,    \* history: <<Len(pushed), Len(returned)>> at the last call of
                \* clear, <<>> when clear was never called
    frees,      \* the alloc::dealloc calls made, in order
    handBack,   \* the last call that handed the block back to the allocator
                \* (realloc or dealloc), <<>> when there was none
    iter,       \* Iter.next of the iterator the caller holds, NoIter if none
    yielded,    \* history: the indices that iterator has yielded, in order
    viewA,      \* a cell view the caller holds: <<index, address>>, or <<>>
    viewB,      \* a second cell view the caller holds
    written     \* history: the indices written through a cell view since
                \* the views were last released

vars == <<status, ty, block, mem, len, capacity, drop, dropLog, ret,
          pushed, returned, cleared, frees, handBack,
          iter, yielded, viewA, viewB, written>>

heapVars == <<frees, handBack>>
viewVars == <<iter, yielded, viewA, viewB, written>>

store == <<block, mem, len, capacity, drop>>
history == <<pushed, returned, cleared>>

\* ------------------------------------------------------- raw memory
Min(a, b) == IF a < b THEN a ELSE b

\* size bytes at byte offset off
ReadAt(m, off, size) == [k \in 1..size |-> m[off + k]]

\* ptr::write of val at byte offset off
WriteAt(m, off, val) ==
    [k \in 1..Len(m) |->
        IF k > off /\ k <= off + Len(val) THEN val[k - off] ELSE m[k]]

Fresh(n) == [k \in 1..n |-> Uninit]

\* <*mut u8>::align_offset: bytes to add to addr to reach a multiple of align
AlignOffset(addr, align) == (align - (addr % align)) % align

\* Faulty variant: a stride of at least one byte.
GetRawMinStride(index) == block + index * (IF ty.size = 0 THEN 1 ELSE ty.size)

\* BlobArray::get_raw, as an address
GetRaw(index) == block + index * ty.size

\* the element in slot index of memory m
Slot(m, index) == ReadAt(m, index * ty.size, ty.size)

Msg(op, idx, val) == [op |-> op, idx |-> idx, val |-> val]

\* ------------------------------------------------------------ state
Init ==
    /\ status = "unborn"
    /\ ty = NoType
    /\ block = NullPtr
    /\ mem = <<>>
    /\ len = 0
    /\ capacity = 0
    /\ drop = FALSE
    /\ dropLog = <<>>
    /\ ret = Msg("none", 0, None)
    /\ pushed = <<>>
    /\ returned = <<>>
    /\ cleared = <<>>
    /\ frees = <<>>
    /\ handBack = <<>>
    /\ iter = NoIter
    /\ yielded = <<>>
    /\ viewA = <<>>
    /\ viewB = <<>>
    /\ written = {}

\* Faulty variant: a zero capacity is let through.
CapacityAny(cap) == TRUE

\* NonZeroUsize::try_from(cap) is Ok
CapacityOk(cap) == cap # 0

\* BlobArray::new::<T>(cap)
New(t, cap) ==
    /\ status = "unborn"
    /\ ty' = t
    /\ UNCHANGED <<dropLog, history, heapVars, viewVars>>
    /\ IF ~CapacityOk(cap)
       THEN \* NonZeroUsize::try_from(0).unwrap() panics
            /\ status' = "panicked"
            /\ ret' = Msg("new", cap, None)
            /\ UNCHANGED store
       ELSE \E raw \in HeapBases \cup {NullPtr} :
              IF raw = NullPtr
              THEN \* handle_alloc_error
                   /\ status' = "aborted"
                   /\ ret' = Msg("new", cap, None)
                   /\ UNCHANGED store
              ELSE /\ status' = "live"
                   /\ block' = raw
                   /\ mem' = Fresh(t.size * cap)
                   /\ len' = 0
                   /\ capacity' = cap
                   /\ drop' = t.needs_drop
                   /\ ret' = Msg("new", cap, Some(<<>>))

\* True while the store can be called: constructed, not torn down, and
\* holding a block (calls on a store whose block is null are not followed).
Usable == status = "live" /\ block # NullPtr

\* The values a caller can push.  The store never looks into a value, so the
\* id-th push is given a value no other push is given: a zero-sized value
\* has no bytes, a U8 is the byte id, an Obj owns a resource of its own (its
\* name, id) and carries an age.
Values(t, id) ==
    IF t.size = 0 THEN { <<>> }
    ELSE IF t.size = 1 THEN { <<id>> }
    ELSE { <<id, 0>> }

\* alloc::realloc(ptr, layout, new_size) on a block whose contents are m and
\* whose layout is claimed to have size claimed: the set of <<new block, its
\* contents>>.  It may fail (null).  When claimed is not the size the block
\* was allocated with the call is undefined: an allocator that ignores the
\* claimed size (libc realloc) keeps the whole block, one that copies
\* (realloc_fallback) keeps only min(claimed, new_size) bytes.
AllocRealloc(m, claimed, new_size) ==
    { <<NullPtr, Fresh(new_size)>> }
    \cup
    { <<p, [k \in 1..new_size |-> IF k <= keep THEN m[k] ELSE Uninit]>> :
        p \in HeapBases,
        keep \in { Min(claimed, new_size), Min(Len(m), new_size) } }

\* BlobArray::realloc(new_capacity): the <<block, mem, capacity>> it leaves
Realloc(new_capacity) ==
    { <<r[1], r[2], new_capacity>> :
        r \in AllocRealloc(mem, ty.size, ty.size * new_capacity) }

\* Faulty variant: the growth test misses the full store.
NeedsGrowNever == len > capacity

\* Faulty variant: push grows while one slot is still free.
NeedsGrowEarly == len + 1 >= capacity

\* push's growth test
NeedsGrow == len = capacity

\* The layout BlobArray::realloc describes the existing block with
\* (self.item_layout), next to the size the block really has.
ReallocCall ==
    [fn |-> "realloc", size |-> ty.size, align |-> ty.align,
     actual |-> Len(mem)]

\* push's self.len += 1
LenAfterPush == len + 1

\* BlobArray::push::<T>(data)
Push(data) ==
    /\ Usable
    /\ Len(pushed) < MaxPush
    /\ \E g \in (IF NeedsGrow THEN Realloc(capacity + 1)
                              ELSE { <<block, mem, capacity>> }) :
         LET raw     == g[1] + len * ty.size
             aligned == AlignOffset(raw, ty.align)
             ptr     == raw + aligned
         IN  /\ block' = g[1]
             /\ capacity' = g[3]
             /\ \/ \* the write lands
                   /\ mem' = WriteAt(g[2], ptr - g[1], data)
                   /\ len' = LenAfterPush
                   /\ status' = status
                   /\ pushed' = Append(pushed, data)
                   /\ ret' = Msg("push", len, Some(<<>>))
                \/ \* a write through a null block may fault
                   /\ g[1] = NullPtr
                   /\ mem' = g[2]
                   /\ len' = len
                   /\ status' = "crashed"
                   /\ pushed' = pushed
                   /\ ret' = Msg("push", len, None)
    /\ handBack' = IF NeedsGrow THEN ReallocCall ELSE handBack
    /\ UNCHANGED <<ty, drop, dropLog, returned, cleared, frees, viewVars>>

\* Faulty variant: the bounds test is off by one.
InRangeInclusive(index) == index <= len

\* the bounds test of get / get_mut / get_cell / swap_remove
InRange(index) == index < len

\* BlobArray::get::<T>(index)
Get(index) ==
    /\ Usable
    /\ ret' = Msg("get", index,
                  IF InRange(index)
                  THEN Some(ReadAt(mem, GetRaw(index) - block, ty.size))
                  ELSE None)
    /\ UNCHANGED <<status, ty, store, dropLog, history, heapVars, viewVars>>

\* Faulty variant: get_mut takes the element out of the live range.
GetMutTakes(index) ==
    /\ Usable
    /\ ret' = Msg("get_mut", index,
                  IF InRange(index)
                  THEN Some(ReadAt(mem, GetRaw(index) - block, ty.size))
                  ELSE None)
    /\ len' = IF InRange(index) THEN len - 1 ELSE len
    /\ UNCHANGED <<status, ty, block, mem, capacity, drop, dropLog, history,
                   heapVars, viewVars>>

\* BlobArray::get_mut::<T>(index)
GetMut(index) ==
    /\ Usable
    /\ ret' = Msg("get_mut", index,
                  IF InRange(index)
                  THEN Some(ReadAt(mem, GetRaw(index) - block, ty.size))
                  ELSE None)
    /\ UNCHANGED <<status, ty, store, dropLog, history, heapVars, viewVars>>

\* BlobArray::get_cell::<T>(index)
GetCell(index) ==
    /\ Usable
    /\ ret' = Msg("get_cell", index,
                  IF InRange(index)
                  THEN Some(ReadAt(mem, GetRaw(index) - block, ty.size))
                  ELSE None)
    /\ UNCHANGED <<status, ty, store, dropLog, history, heapVars, viewVars>>

\* Faulty variant: the last element is copied over a, a's bytes are lost.
SwapCopiesLast(m, a, b, size) == WriteAt(m, a, ReadAt(m, b, size))

\* ptr::swap_nonoverlapping(a, b, 1) on byte offsets a and b
SwapNonoverlapping(m, a, b, size) ==
    WriteAt(WriteAt(m, a, ReadAt(m, b, size)), b, ReadAt(m, a, size))

\* Faulty variant: swap_remove forgets to shrink the live range.
LenAfterRemoveKept == len

\* swap_remove's self.len -= 1
LenAfterRemove == len - 1

\* BlobArray::swap_remove::<T>(index)
SwapRemove(index) ==
    /\ Usable
    /\ IF ~InRange(index)
       THEN /\ ret' = Msg("swap_remove", index, None)
            /\ UNCHANGED <<mem, len, returned>>
       ELSE LET last_index == len - 1
                last       == GetRaw(last_index) - block
                to_remove  == GetRaw(index) - block
                swapped    == IF index < last_index
                              THEN SwapNonoverlapping(mem, to_remove, last, ty.size)
                              ELSE mem
                out        == ReadAt(swapped, last, ty.size)
            IN  /\ len' = LenAfterRemove
                /\ mem' = swapped
                /\ ret' = Msg("swap_remove", index, Some(out))
                /\ returned' = Append(returned, out)
    /\ UNCHANGED <<status, ty, block, capacity, drop, dropLog, pushed, cleared,
                   heapVars, viewVars>>

\* Faulty variant: the destructor loop does not advance the pointer.
DropFnFirstOnly(m, n) == [i \in 1..n |-> ReadAt(m, 0, ty.size)]

\* new::drop::<T>(raw, n): the values drop_in_place runs on, in order
DropFn(m, n) == [i \in 1..n |-> ReadAt(m, (i - 1) * ty.size, ty.size)]

\* Faulty variant: clear destructs the elements and leaves len as it was.
ClearKeepsLen ==
    IF drop
    THEN <<len, TRUE, dropLog \o DropFn(mem, len)>>
    ELSE <<len, drop, dropLog>>

\* Faulty variant: clear takes the destructor out and never puts it back.
ClearLosesDrop ==
    IF drop
    THEN <<0, FALSE, dropLog \o DropFn(mem, len)>>
    ELSE <<len, drop, dropLog>>

\* the effect of BlobArray::clear on <<len, drop, dropLog>>
ClearEffect ==
    IF drop
    THEN <<0, TRUE, dropLog \o DropFn(mem, len)>>
    ELSE <<len, drop, dropLog>>

\* BlobArray::clear()
Clear ==
    /\ Usable
    /\ len' = ClearEffect[1]
    /\ drop' = ClearEffect[2]
    /\ dropLog' = ClearEffect[3]
    /\ cleared' = <<Len(pushed), Len(returned)>>
    /\ ret' = Msg("clear", 0, None)
    /\ UNCHANGED <<status, ty, block, mem, capacity, pushed, returned,
                   heapVars, viewVars>>

\* The alloc::dealloc call of <BlobArray as Drop>::drop, made when the
\* destructor log is log: the layout it describes the block with, next to
\* the size the block really has.
DeallocCall(log) ==
    [fn |-> "dealloc", size |-> ty.size * capacity, align |-> ty.align,
     actual |-> Len(mem), drops |-> Len(log)]

\* Faulty variant: teardown frees the block before it clears.
DropDeallocFirst == DeallocCall(dropLog)

\* teardown's dealloc, made after its clear
DropDealloc == DeallocCall(ClearEffect[3])

\* <BlobArray as Drop>::drop(): clear, then dealloc the block
DropStore ==
    /\ Usable
    /\ len' = ClearEffect[1]
    /\ drop' = ClearEffect[2]
    /\ dropLog' = ClearEffect[3]
    /\ status' = "dropped"
    /\ ret' = Msg("drop", 0, None)
    /\ handBack' = DropDealloc
    /\ frees' = Append(frees, DropDealloc)
    /\ UNCHANGED <<ty, block, mem, capacity, pushed, returned, cleared, viewVars>>

\* What a call that unwinds hands its caller.
Panic == <<"Panic">>

\* Faulty variant: clear leaves the destructor in place while it runs.
ClearPanicKeepsDrop(j) == <<len, TRUE, dropLog \o DropFn(mem, j + 1)>>

\* The effect on <<len, drop, dropLog>> of a clear in which the destructor
\* of element j panics: self.drop is None by then, the elements before j are
\* destructed, the destructor of j has been called, and the unwinding skips
\* the rest of clear.
ClearPanicEffect(j) == <<len, FALSE, dropLog \o DropFn(mem, j + 1)>>

\* BlobArray::clear(), the destructor of element j panicking
ClearPanics(j) ==
    /\ Usable
    /\ drop
    /\ j < len
    /\ len' = ClearPanicEffect(j)[1]
    /\ drop' = ClearPanicEffect(j)[2]
    /\ dropLog' = ClearPanicEffect(j)[3]
    /\ cleared' = <<Len(pushed), Len(returned)>>
    /\ ret' = Msg("clear", j, Panic)
    /\ UNCHANGED <<status, ty, block, mem, capacity, pushed, returned,
                   heapVars, viewVars>>

\* <BlobArray as Drop>::drop(), the destructor of element j panicking in its
\* clear: the unwinding skips the dealloc.
DropStorePanics(j) ==
    /\ Usable
    /\ drop
    /\ j < len
    /\ len' = ClearPanicEffect(j)[1]
    /\ drop' = ClearPanicEffect(j)[2]
    /\ dropLog' = ClearPanicEffect(j)[3]
    /\ status' = "dropped"
    /\ ret' = Msg("drop", j, Panic)
    /\ UNCHANGED <<ty, block, mem, capacity, pushed, returned, cleared,
                   heapVars, viewVars>>

\* The indices the callers try: every index in range and two past the end.
Indices == 0..(len + 1)

Next ==
    \/ \E t \in Types, cap \in 0..MaxCap : New(t, cap)
    \/ \E data \in Values(ty, Len(pushed) + 1) : Push(data)
    \/ \E i \in Indices : Get(i)
    \/ \E i \in Indices : GetMut(i)
    \/ \E i \in Indices : GetCell(i)
    \/ \E i \in Indices : SwapRemove(i)
    \/ Clear
    \/ DropStore

Spec == Init /\ [][Next]_vars

\* ------------------------------------------------- cell views, iterators
\* The byte the callers write through a cell view (test: this.age = 0, on
\* elements pushed with another age).
NewAge == 9

\* v with its plain data (the age of an Obj, the byte of a U8) set to b
WithAge(v, b) == [k \in 1..Len(v) |-> IF k = Len(v) THEN b ELSE v[k]]

\* Faulty variant: the cell is taken at the block's base, the index dropped.
CellAddrBase(index) == GetRaw(0)

\* get_cell's raw.cast::<UnsafeCell<T>>(): the address of the cell of index
CellAddr(index) == GetRaw(index)

\* A &UnsafeCell<T>: the index it was asked for and where it points.
CellView(index) == <<index, CellAddr(index)>>

\* The caller holds no view and no iterator: a &mut self call is allowed.
NoBorrow ==
    /\ iter = NoIter
    /\ viewA = <<>>
    /\ viewB = <<>>
    /\ written = {}

Held(which) == IF which = "A" THEN viewA ELSE viewB

\* BlobArray::get_cell::<T>(index), the caller keeping the view it returns
\* (in viewA, in place of the one it held)
HoldCell(index) ==
    /\ Usable
    /\ ret' = Msg("get_cell", index,
                  IF InRange(index) THEN Some(CellView(index)) ELSE None)
    /\ viewA' = IF InRange(index) THEN CellView(index) ELSE <<>>
    /\ UNCHANGED <<status, ty, store, dropLog, history, heapVars,
                   iter, yielded, viewB, written>>

\* BlobArray::iter::<T>() / Iter::new; the caller lets go of the iterator it
\* had and of the view that one yielded
IterNew ==
    /\ Usable
    /\ iter' = 0
    /\ yielded' = <<>>
    /\ viewB' = <<>>
    /\ ret' = Msg("iter", 0, None)
    /\ UNCHANGED <<status, ty, store, dropLog, history, heapVars,
                   viewA, written>>

\* Faulty variant: next never moves the cursor.
IterCursorStuck(found) == iter

\* Iter.next after next(): .inspect(|_| self.next += 1)
IterCursorAfter(found) == IF found THEN iter + 1 ELSE iter

\* <Iter as Iterator>::next(); the caller keeps the view it yields in viewB
IterNext ==
    /\ Usable
    /\ iter # NoIter
    /\ ret' = Msg("next", iter,
                  IF InRange(iter) THEN Some(CellView(iter)) ELSE None)
    /\ iter' = IterCursorAfter(InRange(iter))
    /\ yielded' = IF InRange(iter) THEN Append(yielded, iter) ELSE yielded
    /\ viewB' = IF InRange(iter) THEN CellView(iter) ELSE viewB
    /\ UNCHANGED <<status, ty, store, dropLog, history, heapVars,
                   viewA, written>>

\* A write through a held view: (*cell.get()).age = NewAge
CellWrite(which) ==
    /\ Usable
    /\ Held(which) # <<>>
    /\ LET off == Held(which)[2] - block
           old == ReadAt(mem, off, ty.size)
       IN  mem' = WriteAt(mem, off, WithAge(old, NewAge))
    /\ written' = written \cup {Held(which)[1]}
    /\ ret' = Msg(IF which = "A" THEN "write_a" ELSE "write_b",
                  Held(which)[1], None)
    /\ UNCHANGED <<status, ty, block, len, capacity, drop, dropLog, history,
                   heapVars, iter, yielded, viewA, viewB>>

\* A read through a held view: &*cell.get()
CellRead(which) ==
    /\ Usable
    /\ Held(which) # <<>>
    /\ ret' = Msg(IF which = "A" THEN "read_a" ELSE "read_b", Held(which)[1],
                  Some(ReadAt(mem, Held(which)[2] - block, ty.size)))
    /\ UNCHANGED <<status, ty, store, dropLog, history, heapVars, viewVars>>

\* The store with callers that hold cell views and an iterator.  The calls
\* that take &mut self are made only while nothing is borrowed from the
\* store: the store is filled, then looked at and written through views.
NextViews ==
    \/ \E t \in Types, cap \in 0..MaxCap : New(t, cap)
    \/ NoBorrow /\ \E data \in Values(ty, Len(pushed) + 1) : Push(data)
    \/ NoBorrow /\ \E i \in 0..(len - 1) : SwapRemove(i)
    \/ \E i \in 0..len : Get(i)
    \/ \E i \in 0..len : HoldCell(i)
    \/ IterNew
    \/ IterNext
    \/ \E which \in {"A", "B"} : CellWrite(which)
    \/ \E which \in {"A", "B"} : CellRead(which)

SpecViews == Init /\ [][NextViews]_vars

\* The store with element destructors that may panic.
NextPanic ==
    \/ \E t \in Types, cap \in 0..MaxCap : New(t, cap)
    \/ \E data \in Values(ty, Len(pushed) + 1) : Push(data)
    \/ \E i \in Indices : SwapRemove(i)
    \/ Clear
    \/ DropStore
    \/ \E j \in 0..(len - 1) : ClearPanics(j)
    \/ \E j \in 0..(len - 1) : DropStorePanics(j)

SpecPanic == Init /\ [][NextPanic]_vars

\* ------------------------------------------------------------ properties
\* The elements of slots 0 .. n-1 of memory m, in order.
Slots(m, n) == [i \in 1..n |-> Slot(m, i - 1)]

\* How many entries of the sequence q are v.
Count(v, q) == Cardinality({ k \in 1..Len(q) : q[k] = v })

Accessors == {"get", "get_mut", "get_cell"}

\* C1: swap_remove(i) with i < n on a store holding s[0..n-1] returns s[i];
\* afterwards len is n-1, index i (when i < n-1) holds s[n-1], and every
\* other index below n-1 still holds what it held.
SwapRemoveSemantics ==
    [][ (Usable /\ ret'.op = "swap_remove" /\ ret'.idx < len) =>
            LET i == ret'.idx
                n == len
            IN  /\ ret'.val = Some(Slot(mem, i))
                /\ len' = n - 1
                /\ (i < n - 1 => Slot(mem', i) = Slot(mem, n - 1))
                /\ \A j \in 0..(n - 2) : j # i => Slot(mem', j) = Slot(mem, j)
      ]_vars

\* A swap_remove of an index that was not the last, on elements that have
\* bytes, has just returned.
SwapRemoveMiddleDone ==
    /\ ret.op = "swap_remove"
    /\ ret.val # None
    /\ ret.idx < len
    /\ ty.size > 0
    /\ len >= 2

\* C2: with no removal (and no clear) since construction, get(i) returns the
\* i-th pushed value for every i below the number of pushes, growth included.
PushGetRoundTrip ==
    (/\ status = "live"
     /\ returned = <<>>
     /\ cleared = <<>>
     /\ ret.op = "get"
     /\ ret.idx < Len(pushed))
        => ret.val = Some(pushed[ret.idx + 1])

\* C3: after clear, len is 0, whether or not the store has a destructor.
ClearResetsLen ==
    ret.op = "clear" => len = 0

\* C4: in a sequence of push and swap_remove calls (accesses allowed, no
\* clear), len is the number of pushes minus the number of swap_remove calls
\* that returned a value.
LenIsPushesMinusRemovals ==
    (status = "live" /\ cleared = <<>>)
        => len = Len(pushed) - Len(returned)

\* Pushes, a swap_remove that returned a value and then one that returned
\* not-found have happened.
RemovalsCounted ==
    /\ status = "live"
    /\ cleared = <<>>
    /\ Len(pushed) >= 2
    /\ Len(returned) >= 1
    /\ ret.op = "swap_remove"
    /\ ret.val = None

\* C5: a constructed store always has 0 <= len <= capacity and capacity >= 1.
LenWithinCapacity ==
    status \in {"live", "dropped"}
        => (0 <= len /\ len <= capacity /\ capacity >= 1)

\* The store has grown past the capacity it was constructed with and is full.
GrownAndFull ==
    /\ status = "live"
    /\ len = capacity
    /\ capacity > MaxCap

\* C6: for an index >= len, get, get_mut, get_cell and swap_remove return
\* None, the store stays live and len, capacity and the elements stay as
\* they were.
OutOfRangeIsNone ==
    [][ (/\ Usable
         /\ ret'.op \in Accessors \cup {"swap_remove"}
         /\ ret'.idx >= len)
            => (/\ ret'.val = None
                /\ status' = "live"
                /\ UNCHANGED <<block, mem, len, capacity, drop>>)
      ]_vars

\* An out-of-range swap_remove has just returned on a store that is not empty.
OutOfRangeRemoveDone ==
    /\ ret.op = "swap_remove"
    /\ ret.idx >= len
    /\ ret.val = None
    /\ len >= 1

\* C7: with a destructor, clear and teardown run it once on each of the slots
\* 0 .. len-1 and on nothing else; a clear with no push since the last clear
\* destructs nothing; after a clear, a clear or teardown destructs as many
\* elements as were pushed and not removed since that clear, and no value
\* pushed before it.
DestructorAccounting ==
    [][ (Usable /\ drop /\ ret'.op \in {"clear", "drop"}) =>
            /\ dropLog' = dropLog \o Slots(mem, len)
            /\ (cleared # <<>> /\ cleared[1] = Len(pushed))
                   => dropLog' = dropLog
            /\ cleared # <<>>
                   => /\ Len(dropLog') - Len(dropLog)
                           = (Len(pushed) - cleared[1])
                               - (Len(returned) - cleared[2])
                      /\ ty.size > 0
                           => \A k \in 1..cleared[1] :
                                 Count(pushed[k], Slots(mem, len)) = 0
      ]_vars

\* A store with a destructor was cleared, pushed to again and torn down, and
\* both the clear and the teardown destructed something.
ClearThenTeardownDone ==
    /\ status = "dropped"
    /\ ty.needs_drop
    /\ cleared # <<>>
    /\ ty.size > 0
    /\ cleared[1] >= 2
    /\ Len(pushed) > cleared[1]
    /\ Len(dropLog) > cleared[1] - cleared[2]

\* C8: the store destructs no pushed value twice and never destructs a
\* pushed value that swap_remove returned; what it destructed and what it
\* returned together are no more than what was pushed.
NoDoubleDestruct ==
    /\ Len(dropLog) + Len(returned) <= Len(pushed)
    /\ ty.size > 0 =>
          \A k \in 1..Len(pushed) :
              /\ Count(pushed[k], dropLog) <= 1
              /\ Count(pushed[k], returned) <= 1
              /\ Count(pushed[k], returned) = 1 => Count(pushed[k], dropLog) = 0

\* A value was returned by swap_remove and the store was later cleared of the
\* elements left in it.
RemovedThenCleared ==
    /\ ty.needs_drop
    /\ ty.size > 0
    /\ Len(returned) >= 1
    /\ Len(dropLog) >= 1
    /\ cleared # <<>>
    /\ cleared[2] >= 1

AllocFailureIsFatal ==
    status = "live" => block # NullPtr

\* C11: an iterator yields the cell views of slots 0, 1, ..., n-1 in that
\* order, each once, n being the length when it was created (the store cannot
\* change while it is held); after them next returns None, and keeps
\* returning None.  Over an empty store the first next returns None.
IterYieldsSlotsInOrder ==
    [][ /\ ret'.op = "iter" => (iter' = 0 /\ yielded' = <<>>)
        /\ ret'.op = "next" =>
              /\ iter # NoIter
              /\ IF iter < len
                 THEN /\ ret'.val = Some(<<iter, block + iter * ty.size>>)
                      /\ iter' = iter + 1
                      /\ yielded' = Append(yielded, iter)
                 ELSE /\ ret'.val = None
                      /\ iter' = iter
                      /\ yielded' = yielded
        /\ iter' # NoIter =>
              /\ yielded' = [k \in 1..iter' |-> k - 1]
              /\ iter' <= len'
              /\ iter # NoIter => len' = len
      ]_vars

\* An iterator over a store of two or more sized elements has yielded them
\* all and has just returned None.
IterExhausted ==
    /\ ret.op = "next"
    /\ ret.val = None
    /\ ty.size > 0
    /\ len >= 2
    /\ Len(yielded) = len

\* C12: every read of a slot, through get or through a held cell view,
\* returns the bytes of that slot, and a slot written through a cell view
\* holds the written byte from then on, so that every later read of it, by
\* whatever way, sees the write; the write changes nothing else of the slot,
\* no other slot, and not block, len or capacity.  (A zero-sized element has
\* no byte to write.)
CellWriteSeenByAll ==
    [][ /\ (ret'.op \in {"get", "read_a", "read_b"} /\ ret'.idx < len) =>
              /\ ret'.val = Some(Slot(mem, ret'.idx))
              /\ (ret'.idx \in written /\ ty.size > 0) =>
                    ret'.val[2][ty.size] = NewAge
        /\ ret'.op \in {"write_a", "write_b"} =>
              /\ ret'.idx < len
              /\ written' = written \cup {ret'.idx}
              /\ Slot(mem', ret'.idx) = WithAge(Slot(mem, ret'.idx), NewAge)
              /\ \A j \in 0..(capacity - 1) :
                    j # ret'.idx => Slot(mem', j) = Slot(mem, j)
              /\ Len(mem') = Len(mem)
              /\ <<block', len', capacity'>> = <<block, len, capacity>>
        /\ ty'.size > 0 =>
              \A i \in written' : Slot(mem', i)[ty'.size] = NewAge
      ]_vars

\* Slot 1 or later of a store of Obj, held through a get_cell view and
\* through an iterator's view at once, was written and has just been read
\* through the iterator's view.
WrittenSlotReadThroughOtherView ==
    /\ ret.op = "read_b"
    /\ ret.idx >= 1
    /\ ret.idx \in written
    /\ viewA # <<>>
    /\ viewA[1] = ret.idx
    /\ viewB[1] = ret.idx
    /\ ty.size = 2
    /\ ret.val = Some(WithAge(pushed[ret.idx + 1], NewAge))

\* C13: teardown clears first and then frees the block, once: when the block
\* is freed every destructor call of the store has been made, a torn-down
\* store has had exactly one dealloc, no other store has had any, and no
\* call is made on a store after its teardown.
TeardownFreesOnce ==
    [][ /\ status # "dropped"
        /\ status' = "dropped" =>
              /\ Len(frees') = 1
              /\ frees'[1].fn = "dealloc"
              /\ frees'[1].drops = Len(dropLog')
              /\ drop => (len' = 0 /\ dropLog' = dropLog \o Slots(mem, len))
        /\ status' # "dropped" => frees' = <<>>
      ]_vars

\* A store with a destructor holding elements was torn down.
TeardownWithElementsDone ==
    /\ status = "dropped"
    /\ ty.needs_drop
    /\ cleared = <<>>
    /\ Len(dropLog) >= 2
    /\ Len(frees) = 1

\* C14: for a zero-sized element type, a store pushed k times (k below, at
\* or above its capacity) has len k, all its slot addresses are the block's
\* address, and clear and teardown call the destructor, if there is one,
\* once per element.
ZeroSizedAccounting ==
    [][ (ty'.size = 0 /\ status' \in {"live", "dropped"}) =>
            /\ (status' = "live" /\ returned' = <<>> /\ cleared' = <<>>)
                   => len' = Len(pushed')
            /\ \A i \in 0..len' : GetRaw(i)' = block'
            /\ (Usable /\ drop /\ ret'.op \in {"clear", "drop"})
                   => (Len(dropLog') = Len(dropLog) + len /\ len' = 0)
      ]_vars

\* A zero-sized store with a destructor grew past its capacity and was then
\* cleared of its elements.
ZeroSizedGrownAndCleared ==
    /\ ty.name = "ZstDrop"
    /\ capacity > MaxCap
    /\ Len(pushed) = capacity
    /\ returned = <<>>
    /\ ret.op \in {"clear", "drop"}
    /\ Len(dropLog) = capacity

\* C15: get, get_mut and get_cell, for any index, change neither len nor
\* capacity nor any stored byte (nor the block or the destructor).
AccessorsChangeNothing ==
    [][ (Usable /\ ret'.op \in Accessors) =>
            (/\ UNCHANGED <<block, mem, len, capacity, drop>>
             /\ status' = "live")
      ]_vars

\* An in-range get_mut has just returned an element.
InRangeGetMutDone ==
    /\ ret.op = "get_mut"
    /\ ret.val # None
    /\ ret.idx < len

\* C16: the capacity of a live store changes only in a push called with
\* len = capacity, and then to capacity + 1.
CapacityGrowsByOneWhenFull ==
    [][ (status = "live" /\ capacity' # capacity) =>
            (/\ ret'.op = "push"
             /\ len = capacity
             /\ capacity' = capacity + 1)
      ]_vars

\* A push into a store with a free slot has just returned, after the store
\* had grown.
PushWithoutGrowthDone ==
    /\ status = "live"
    /\ ret.op = "push"
    /\ handBack # <<>>
    /\ len < capacity

\* C17: after every completed call the destructor is present exactly when
\* the element type needs one.
DropPresenceIsFixed ==
    status \in {"live", "dropped"} => (drop <=> ty.needs_drop)

\* A store with a destructor was cleared and then used again.
UsedAfterClear ==
    /\ status = "live"
    /\ ty.needs_drop
    /\ cleared # <<>>
    /\ Len(pushed) > cleared[1]
    /\ Len(dropLog) >= 1

\* C18: the block of a usable store has capacity * size bytes, and realloc
\* and dealloc are handed the block with the size it was allocated with.
HandBackLayoutMatches ==
    /\ Usable => Len(mem) = capacity * ty.size
    /\ handBack # <<>> => handBack.size = handBack.actual

\* C19: a clear in which an element destructor panics leaves the store
\* without its destructor and with len as it was; from then on no clear and
\* no teardown calls a destructor, so no pushed value is destructed twice.
PanickedClearDisarms ==
    [][ /\ (Usable /\ ret'.op = "clear" /\ ret'.val = Panic)
            => (/\ drop' = FALSE
                /\ len' = len
                /\ status' = "live")
        /\ (status = "live" /\ ty.needs_drop /\ ~drop)
            => (dropLog' = dropLog /\ drop' = FALSE)
        /\ ty'.size > 0
            => \A k \in 1..Len(pushed') : Count(pushed'[k], dropLog') <= 1
      ]_vars

\* A clear panicked part-way, leaving elements that were not destructed, and
\* the store was then torn down and its block freed.
TeardownAfterPanickedClear ==
    /\ status = "dropped"
    /\ ty.needs_drop
    /\ ~drop
    /\ ty.size > 0
    /\ len >= 2
    /\ Len(dropLog) = 1
    /\ Len(frees) = 1

====
